---- MODULE Spec2Model ----
(***************************************************************************)
(* Model of src/app.py (JobHunterApp): the career-page discovery pipeline. *)
(*                                                                         *)
(* Text is held as TLA+ strings and handled character by character with    *)
(* Len, SubSeq and \o, the way the Python code handles str values.         *)
(* relevance_score is held in tenths (30 stands for 3.0): every weight of  *)
(* calculate_relevance_score is a whole number of tenths.                  *)
(***************************************************************************)
EXTENDS Integers, Sequences, FiniteSets, TLC

----------------------------------------------------------------------------
(* Bounds of the model *)

\* longest hit sequence handed to the classifier
MaxHits == 3
\* number of calls of the function under study made in one behaviour
MaxRuns == 2
\* longest organic_results list of a search response
MaxOrganic == 2
\* length of the short candidate lists handed to the language-model filter
MaxFewPages == 3
\* number of candidates beyond the 50 that the prompt holds
MaxBeyondPrompt == 1
\* largest num_results of the criteria handed to the language-model filter
MaxWanted == 2
\* length of the selection in a reply of the language-model service
MaxSelected == 2
\* hits of a classifier call that is made again with other arguments
MaxRerunHits == 2

----------------------------------------------------------------------------
(* Python str operations *)

UpperChars == "ABCDEFGHIJKLMNOPQRSTUVWXYZ"
LowerChars == "abcdefghijklmnopqrstuvwxyz"

CharAt(s, i) == SubSeq(s, i, i)

IsUpper(c) == \E i \in 1..26 : CharAt(UpperChars, i) = c
IsLower(c) == \E i \in 1..26 : CharAt(LowerChars, i) = c
IsAlpha(c) == IsUpper(c) \/ IsLower(c)

LowerChar(c) ==
    IF IsUpper(c)
    THEN CharAt(LowerChars, CHOOSE i \in 1..26 : CharAt(UpperChars, i) = c)
    ELSE c

UpperChar(c) ==
    IF IsLower(c)
    THEN CharAt(UpperChars, CHOOSE i \in 1..26 : CharAt(LowerChars, i) = c)
    ELSE c

\* str.lower()
RECURSIVE Lower(_)
Lower(s) == IF s = "" THEN "" ELSE LowerChar(Head(s)) \o Lower(Tail(s))

\* s.startswith(p) looked at from index i: s[i-1:].startswith(p)
MatchAt(p, s, i) ==
    /\ i + Len(p) - 1 <= Len(s)
    /\ (Len(p) > 0 => SubSeq(s, i, i + Len(p) - 1) = p)

\* p in s
In(p, s) == \E i \in 1..(Len(s) + 1) : MatchAt(p, s, i)

\* s.find(p, from) with 1-based indices; 0 when p does not occur
Find(p, s, from) ==
    IF \E i \in from..(Len(s) + 1) : MatchAt(p, s, i)
    THEN CHOOSE i \in from..(Len(s) + 1) :
            /\ MatchAt(p, s, i)
            /\ \A j \in from..(i - 1) : ~MatchAt(p, s, j)
    ELSE 0

\* s[i-1:] and s[:n]
From(s, i) == IF i > Len(s) THEN "" ELSE SubSeq(s, i, Len(s))
Upto(s, n) == IF n <= 0 THEN "" ELSE IF n >= Len(s) THEN s ELSE SubSeq(s, 1, n)

\* s.split(sep), sep non-empty
RECURSIVE Split(_, _)
Split(s, sep) ==
    LET i == Find(sep, s, 1)
    IN  IF i = 0 THEN << s >>
        ELSE << Upto(s, i - 1) >> \o Split(From(s, i + Len(sep)), sep)

\* s.replace(old, new), old non-empty
RECURSIVE Replace(_, _, _)
Replace(s, old, new) ==
    LET i == Find(old, s, 1)
    IN  IF i = 0 THEN s
        ELSE Upto(s, i - 1) \o new \o Replace(From(s, i + Len(old)), old, new)

\* s.strip()
RECURSIVE LStrip(_)
LStrip(s) == IF s # "" /\ Head(s) = " " THEN LStrip(Tail(s)) ELSE s
RECURSIVE RStrip(_)
RStrip(s) ==
    IF s # "" /\ CharAt(s, Len(s)) = " " THEN RStrip(Upto(s, Len(s) - 1)) ELSE s
Strip(s) == RStrip(LStrip(s))

\* s.title(): a letter that follows a letter is lower-cased, any other
\* letter is upper-cased
RECURSIVE TitleFrom(_, _)
TitleFrom(s, prevAlpha) ==
    IF s = "" THEN ""
    ELSE LET c == Head(s)
         IN  (IF prevAlpha THEN LowerChar(c) ELSE UpperChar(c))
                \o TitleFrom(Tail(s), IsAlpha(c))
Title(s) == TitleFrom(s, FALSE)

\* " ".join(parts)
RECURSIVE Join(_, _)
Join(parts, sep) ==
    IF parts = << >> THEN ""
    ELSE IF Len(parts) = 1 THEN parts[1]
    ELSE parts[1] \o sep \o Join(Tail(parts), sep)

\* dict.get(key, default)
Get(d, key, default) == IF key \in DOMAIN d THEN d[key] ELSE default

\* truthiness of a str
Truthy(s) == s # ""

Max(a, b) == IF a >= b THEN a ELSE b
Min(a, b) == IF a <= b THEN a ELSE b

Range(seq) == { seq[k] : k \in 1..Len(seq) }

\* any(p in s for p in patterns)
AnyIn(patterns, s) == \E k \in 1..Len(patterns) : In(patterns[k], s)


----------------------------------------------------------------------------
(* urllib.parse.urlparse, as far as extract_domain and extract_company_name
   use it: the netloc component, and the ValueError it raises *)

SchemeChars == LowerChars \o UpperChars \o "0123456789+-."

IsSchemeChar(c) == \E i \in 1..Len(SchemeChars) : CharAt(SchemeChars, i) = c

\* the url with a leading "<scheme>:" taken off, when it has a scheme
AfterScheme(url) ==
    LET i == Find(":", url, 1)
    IN  IF /\ i > 1
           /\ IsAlpha(CharAt(url, 1))
           /\ \A k \in 1..(i - 1) : IsSchemeChar(CharAt(url, k))
        THEN From(url, i + 1)
        ELSE url

\* _splitnetloc(url, 2): the text between "//" and the first of "/", "?", "#"
SplitNetloc(rest) ==
    LET ends == { k \in 3..Len(rest) : CharAt(rest, k) \in {"/", "?", "#"} }
        delim == IF ends = {} THEN Len(rest) + 1
                 ELSE CHOOSE k \in ends : \A j \in ends : k <= j
    IN  IF delim <= 3 THEN "" ELSE SubSeq(rest, 3, delim - 1)

\* urlparse(url).netloc
Netloc(url) ==
    LET rest == AfterScheme(LStrip(url))
    IN  IF Upto(rest, 2) = "//" THEN SplitNetloc(rest) ELSE ""

\* urlparse(url) raises ValueError("Invalid IPv6 URL")
UrlParseRaises(url) ==
    LET n == Netloc(url)
    IN  In("[", n) # In("]", n)

----------------------------------------------------------------------------
(* JobHunterApp.extract_domain and JobHunterApp.extract_company_name *)

extract_domain(url) ==
    IF UrlParseRaises(url) THEN url
    ELSE Replace(Lower(Netloc(url)), "www.", "")

CompanyWords == << "career", "job", "hiring" >>

\* the name taken from the URL's domain, or the fallback of the bare except
company_name_from_domain(url) ==
    LET domain == Replace(Replace(Replace(Lower(Netloc(url)),
                        "www.", ""), "careers.", ""), "jobs.", "")
    IN  IF UrlParseRaises(url) THEN "Unknown Company"
        ELSE IF In(".", domain)
             THEN Title(Replace(Split(domain, ".")[1], "-", " "))
             ELSE Title(domain)

\* the same function with the length test len(potential_company) <= 50
extract_company_name_upto_50(title, url) ==
    LET potential_company == Strip(Split(title, " - ")[1])
    IN  IF /\ In(" - ", title)
           /\ Len(potential_company) <= 50
           /\ ~AnyIn(CompanyWords, Lower(potential_company))
        THEN potential_company
        ELSE company_name_from_domain(url)

extract_company_name(title, url) ==
    LET potential_company == Strip(Split(title, " - ")[1])
    IN  IF /\ In(" - ", title)
           /\ Len(potential_company) < 50
           /\ ~AnyIn(CompanyWords, Lower(potential_company))
        THEN potential_company
        ELSE company_name_from_domain(url)

----------------------------------------------------------------------------
(* JobHunterApp.calculate_relevance_score, in tenths *)

UrlTierKeywords == << "hiring", "employment", "talent" >>
LargeTerms == << "fortune", "global", "multinational", "corporation" >>
StartupTerms == << "startup", "emerging", "innovative", "scale" >>

\* URL quality scoring with three independent ifs, whose tiers add up
UrlTierScoreAdded(url) ==
    (IF In("careers.", url) \/ In("/careers", url) THEN 30 ELSE 0)
      + (IF In("jobs.", url) \/ In("/jobs", url) THEN 25 ELSE 0)
      + (IF AnyIn(UrlTierKeywords, url) THEN 20 ELSE 0)

\* URL quality scoring: the first matching tier
UrlTierScore(url) ==
    IF In("careers.", url) \/ In("/careers", url) THEN 30
    ELSE IF In("jobs.", url) \/ In("/jobs", url) THEN 25
    ELSE IF AnyIn(UrlTierKeywords, url) THEN 20
    ELSE 0

\* Title relevance scoring against the industry label
IndustryScore(title, crit) ==
    LET industry == Lower(Get(crit, "industry", ""))
    IN  IF AnyIn(Split(industry, "&"), title) THEN 20 ELSE 0

\* Company size indicators
SizeScore(title, snippet, crit) ==
    LET company_size == Lower(Get(crit, "company_size", ""))
    IN  IF In("mnc", company_size) \/ In("large", company_size)
        THEN IF \E k \in 1..Len(LargeTerms) :
                    In(LargeTerms[k], title) \/ In(LargeTerms[k], snippet)
             THEN 15 ELSE 0
        ELSE IF In("startup", company_size)
        THEN IF \E k \in 1..Len(StartupTerms) :
                    In(StartupTerms[k], title) \/ In(StartupTerms[k], snippet)
             THEN 15 ELSE 0
        ELSE 0

\* Domain authority indicators
AuthorityScore(url) ==
    (IF In(".com", url) THEN 5 ELSE 0) + (IF In("www.", url) THEN 3 ELSE 0)

\* Position in search results
PositionScore(result) ==
    LET position == Get(result, "position", 10)
    IN  Max(0, 10 - position)

calculate_relevance_score(result, crit) ==
    LET url == Lower(result.url)
        title == Lower(result.title)
        snippet == Lower(result.snippet)
    IN  UrlTierScore(url) + IndustryScore(title, crit)
          + SizeScore(title, snippet, crit) + AuthorityScore(url)
          + PositionScore(result)

\* the values the local score takes: at entry, after the URL quality
\* scoring, after the title relevance scoring, after the company size
\* indicators, after the domain authority indicators, after the position boost
ScoreSteps(result, crit) ==
    LET url == Lower(result.url)
        title == Lower(result.title)
        snippet == Lower(result.snippet)
        s1 == UrlTierScore(url)
        s2 == s1 + IndustryScore(title, crit)
        s3 == s2 + SizeScore(title, snippet, crit)
        s4 == s3 + AuthorityScore(url)
        s5 == s4 + PositionScore(result)
    IN  << 0, s1, s2, s3, s4, s5 >>

----------------------------------------------------------------------------
(* JobHunterApp.filter_career_pages_locally *)

career_url_keywords ==
    << "career", "careers", "job", "jobs", "hiring", "employment",
       "talent", "work", "opportunity", "join", "apply", "openings" >>

career_title_keywords ==
    << "career", "careers", "job", "jobs", "hiring", "employment",
       "work at", "join", "talent", "opportunities" >>

fixed_exclude_patterns ==
    << "indeed", "linkedin", "glassdoor", "monster", "ziprecruiter",
       "simplyhired", "careerbuilder", "dice", "recruiter", "recruitment",
       "staffing", "headhunter", "talent agency", "consulting" >>

\* [kw.strip() for kw in excluded_keywords if kw.strip()]
RECURSIVE StripAndDropEmpty(_)
StripAndDropEmpty(kws) ==
    IF kws = << >> THEN << >>
    ELSE (IF Truthy(Strip(Head(kws))) THEN << Strip(Head(kws)) >> ELSE << >>)
            \o StripAndDropEmpty(Tail(kws))

\* excluded_keywords without the lower-casing of the caller's text
excluded_keywords_case_kept(crit) ==
    IF Truthy(Get(crit, "exclude_keywords", ""))
    THEN StripAndDropEmpty(Split(Get(crit, "exclude_keywords", ""), ","))
    ELSE << >>

\* the caller's exclude_keywords: lower-cased, split on ",", trimmed
excluded_keywords(crit) ==
    IF Truthy(Get(crit, "exclude_keywords", ""))
    THEN StripAndDropEmpty(Split(Lower(Get(crit, "exclude_keywords", "")), ","))
    ELSE << >>

exclude_patterns(crit) == fixed_exclude_patterns \o excluded_keywords(crit)

\* the three signals and the exclusion test, on the lower-cased texts
is_career_url(url) == AnyIn(career_url_keywords, url)
is_career_title(title) == AnyIn(career_title_keywords, title)
\* has_career_content searching for all twelve keywords
has_career_content_all_keywords(snippet) == AnyIn(career_url_keywords, snippet)
has_career_content(snippet) == AnyIn(SubSeq(career_url_keywords, 1, 6), snippet)

is_excluded(url, title, snippet, patterns) ==
    \E k \in 1..Len(patterns) :
        In(patterns[k], url) \/ In(patterns[k], title) \/ In(patterns[k], snippet)

\* the part of the filtering condition that does not look at excluded_domains
IsCareerAndNotExcluded(result, crit) ==
    LET url == Lower(result.url)
        title == Lower(result.title)
        snippet == Lower(result.snippet)
    IN  /\ is_career_url(url) \/ is_career_title(title) \/ has_career_content(snippet)
        /\ ~is_excluded(url, title, snippet, exclude_patterns(crit))

CareerPage(result, crit) ==
    [ company_name    |-> extract_company_name(result.title, result.url),
      title           |-> result.title,
      career_url      |-> result.url,
      description     |-> result.snippet,
      domain          |-> extract_domain(result.url),
      industry        |-> Get(crit, "industry", "Unknown"),
      company_size    |-> Get(crit, "company_size", "Unknown"),
      relevance_score |-> calculate_relevance_score(result, crit) ]

----------------------------------------------------------------------------
(* JobHunterApp.setup_constants: the choices the two select boxes offer *)

industry_domains ==
    << "Technology & Software",
       "Financial Services & Fintech",
       "Healthcare & Biotechnology",
       "E-commerce & Retail",
       "Consulting & Professional Services",
       "Manufacturing & Automotive",
       "Media & Entertainment",
       "Energy & Utilities",
       "Real Estate & Construction",
       "Education & EdTech",
       "Food & Beverage",
       "Transportation & Logistics",
       "Telecommunications",
       "Gaming & Digital Entertainment",
       "Aerospace & Defense" >>

company_sizes ==
    << "MNCs (Large Corporations)",
       "Startups (Small to Medium)" >>

----------------------------------------------------------------------------
(* JobHunterApp.make_single_serp_call *)

\* size_keywords (make_single_serp_call)
size_keywords ==
       ("MNCs (Large Corporations)" :>
          "Fortune 500 OR multinational OR corporation OR large company OR enterprise")
    @@ ("Startups (Small to Medium)" :>
          "startup OR emerging company OR scale-up OR tech company OR innovation")

\* industry_keywords (make_single_serp_call)
industry_keywords ==
       ("Technology & Software" :>
          "software OR technology OR IT OR tech OR SaaS OR cloud OR AI OR data science")
    @@ ("Financial Services & Fintech" :>
          "bank OR financial OR fintech OR investment OR trading OR insurance OR payments")
    @@ ("Healthcare & Biotechnology" :>
          "healthcare OR biotech OR pharmaceutical OR medical OR health tech OR life sciences")
    @@ ("E-commerce & Retail" :>
          "ecommerce OR retail OR marketplace OR shopping OR consumer goods OR fashion")
    @@ ("Consulting & Professional Services" :>
          "consulting OR advisory OR professional services OR strategy OR management")
    @@ ("Manufacturing & Automotive" :>
          "manufacturing OR automotive OR industrial OR machinery OR production OR engineering")
    @@ ("Media & Entertainment" :>
          "media OR entertainment OR content OR streaming OR publishing OR creative")
    @@ ("Energy & Utilities" :>
          "energy OR utilities OR renewable OR oil OR gas OR power OR electricity")
    @@ ("Real Estate & Construction" :>
          "real estate OR construction OR property OR architecture OR development")
    @@ ("Education & EdTech" :>
          "education OR edtech OR learning OR training OR university OR academic")
    @@ ("Food & Beverage" :>
          "food OR beverage OR restaurant OR hospitality OR culinary OR agriculture")
    @@ ("Transportation & Logistics" :>
          "logistics OR transportation OR supply chain OR shipping OR delivery")
    @@ ("Telecommunications" :>
          "telecom OR telecommunications OR wireless OR network OR connectivity")
    @@ ("Gaming & Digital Entertainment" :>
          "gaming OR game development OR digital entertainment OR esports")
    @@ ("Aerospace & Defense" :>
          "aerospace OR defense OR aviation OR space OR military OR aircraft")

\* QueryParts with the location clause added whatever the location
QueryPartsAlwaysLocation(industry, company_size, location) ==
    LET industry_terms == Get(industry_keywords, industry, industry)
        size_terms == Get(size_keywords, company_size, "")
    IN  << "(" \o industry_terms \o ")" >>
          \o (IF Truthy(size_terms) THEN << "(" \o size_terms \o ")" >> ELSE << >>)
          \o << "location:" \o location >>
          \o << "(careers OR jobs OR hiring OR employment)" >>

\* query_parts when the query is joined
QueryParts(industry, company_size, location) ==
    LET industry_terms == Get(industry_keywords, industry, industry)
        size_terms == Get(size_keywords, company_size, "")
    IN  << "(" \o industry_terms \o ")" >>
          \o (IF Truthy(size_terms) THEN << "(" \o size_terms \o ")" >> ELSE << >>)
          \o (IF Truthy(location) THEN << "location:" \o location >> ELSE << >>)
          \o << "(careers OR jobs OR hiring OR employment)" >>

FinalQuery(industry, company_size, location) ==
    Join(QueryParts(industry, company_size, location), " ")

\* the params of the GET request
SerpParams(query, api_key, num_results) ==
    [ engine |-> "google", q |-> query, api_key |-> api_key,
      num |-> num_results, gl |-> "us", hl |-> "en" ]

\* one raw_result of the loop over organic_results
RawResult(result, query) ==
    [ title          |-> Get(result, "title", ""),
      url            |-> Get(result, "link", ""),
      snippet        |-> Get(result, "snippet", ""),
      displayed_link |-> Get(result, "displayed_link", ""),
      position       |-> Get(result, "position", 0),
      search_query   |-> query ]

\* messages shown through st.info, st.success, st.warning and st.error
StMsg(level, what) == [ level |-> level, what |-> what ]

\* The try block, from the query to the return.  A response is either a
\* transport failure of requests.get or an HTTP response with a status code
\* and a body; the body is not JSON, or JSON that is not an object, or an
\* object.  raised tells that the block was left by an exception.
SerpTryBlock(query, response) ==
    LET info == << StMsg("info", "Single API Call Query") >>
    IN  IF response.kind = "transport_error"
        THEN [ raised |-> TRUE, ret |-> << >>, log |-> info ]
        ELSE IF response.status_code = 200
        THEN IF response.body.kind # "object"
             THEN [ raised |-> TRUE, ret |-> << >>, log |-> info ]
             ELSE LET organic_results == Get(response.body.data, "organic_results", << >>)
                  IN  [ raised |-> FALSE,
                        ret |-> [ k \in 1..Len(organic_results) |->
                                    RawResult(organic_results[k], query) ],
                        log |-> info \o << StMsg("success", "Single API Call Complete") >> ]
        ELSE [ raised |-> FALSE, ret |-> << >>,
               log |-> info \o << StMsg("error", "SERP API Error") >>
                         \o (IF response.status_code = 429
                             THEN << StMsg("error", "Rate limit exceeded") >>
                             ELSE << >>) ]

\* an except clause that lets the exception go on to the caller
SerpExceptReraises(block) == block

\* except Exception: report and return []
SerpExcept(block) ==
    IF block.raised
    THEN [ raised |-> FALSE, ret |-> << >>,
           log |-> block.log \o << StMsg("error", "Error making SERP API call") >> ]
    ELSE block

\* The whole call: what it returns, what it shows, the requests it sends,
\* the query it builds (none without an API key), whether it raises.
MakeSingleSerpCall(api_key, args, response) ==
    IF ~Truthy(api_key)
    THEN [ raised |-> FALSE, ret |-> << >>,
           log |-> << StMsg("error", "Please provide SERP API key") >>,
           requests |-> << >>, final_query |-> "" ]
    ELSE LET query == FinalQuery(args.industry, args.company_size, args.location)
             done == SerpExcept(SerpTryBlock(query, response))
         IN  [ raised |-> done.raised, ret |-> done.ret, log |-> done.log,
               requests |-> << SerpParams(query, api_key, args.num_results) >>,
               final_query |-> query ]

----------------------------------------------------------------------------
(* JobHunterApp.filter_career_pages_with_llm *)

\* for i, page in enumerate(career_pages[:100], 1)
PagesSummaryCap == 100
\* chr(10).join(pages_summary[:50])
PromptCap == 50
\* criteria.get('num_results', 20)
DefaultNumResults == 20
\* st.slider("Number of Companies", 10, 100, 30, step=5): the least value
SliderMinimum == 10

\* seq[:n]
Slice(seq, n) ==
    IF n >= 0 THEN SubSeq(seq, 1, Min(n, Len(seq)))
    ELSE SubSeq(seq, 1, Max(0, Len(seq) + n))

\* pages_summary: the numbered summaries of the first 100 candidates
PagesSummary(pages) ==
    [ i \in 1..Min(PagesSummaryCap, Len(pages)) |-> [ number |-> i, page |-> pages[i] ] ]

\* the chat request: the summaries that go into the prompt and the criteria
\* the prompt names
LlmRequest(pages, crit) ==
    [ companies   |-> Slice(PagesSummary(pages), PromptCap),
      industry    |-> Get(crit, "industry", "Any"),
      company_size |-> Get(crit, "company_size", "Any"),
      max_results |-> Get(crit, "num_results", DefaultNumResults) ]

\* The text handed to json.loads.  A reply text is an optional opening fence
\* ("fence json" for ```json, "fence" for ```), a body, an optional closing
\* fence ```; its body is not JSON, or a JSON array, or a JSON object.  result[7:-3] and result[3:-3]
\* cut the opening fence and the last three characters, which are the closing
\* fence when there is one and the end of the body otherwise.
AfterFenceStrip(reply) ==
    IF reply.open # ""
    THEN IF reply.close # "" THEN reply.body ELSE [ kind |-> "not_json" ]
    ELSE IF reply.close # "" THEN [ kind |-> "not_json" ] ELSE reply.body

\* the selection with a number out of range taken as the first candidate
RECURSIVE SelectPagesClamped(_, _)
SelectPagesClamped(pages, selected_indices) ==
    IF selected_indices = << >> THEN << >>
    ELSE LET idx == Head(selected_indices)
         IN  (IF 1 <= idx /\ idx <= Len(pages) THEN << pages[idx] >> ELSE << pages[1] >>)
                \o SelectPagesClamped(pages, Tail(selected_indices))

\* [career_pages[idx-1] for idx in selected_indices if 1 <= idx <= len(career_pages)]
RECURSIVE SelectPages(_, _)
SelectPages(pages, selected_indices) ==
    IF selected_indices = << >> THEN << >>
    ELSE LET idx == Head(selected_indices)
         IN  (IF 1 <= idx /\ idx <= Len(pages) THEN << pages[idx] >> ELSE << >>)
                \o SelectPages(pages, Tail(selected_indices))

\* the early return: return career_pages
LlmEarlyReturn(client, pages, crit) == pages

\* The whole call: what it returns, what it shows, the requests it sends,
\* whether it raises.
FilterCareerPagesWithLlm(client, pages, crit, reply) ==
    LET num_results == Get(crit, "num_results", DefaultNumResults)
        sent == << LlmRequest(pages, crit) >>
        text == AfterFenceStrip(reply)
    IN  IF ~client \/ pages = << >>
        THEN [ raised |-> FALSE, ret |-> LlmEarlyReturn(client, pages, crit),
               log |-> IF ~client
                       THEN << StMsg("warning", "Azure OpenAI not configured") >>
                       ELSE << >>,
               requests |-> << >> ]
        ELSE IF reply.kind = "api_error"
        THEN [ raised |-> FALSE, ret |-> Slice(pages, num_results),
               log |-> << StMsg("error", "AI filtering error") >>, requests |-> sent ]
        ELSE IF text.kind = "not_json"
        THEN [ raised |-> FALSE, ret |-> Slice(pages, num_results),
               log |-> << StMsg("warning", "AI response parsing failed") >>,
               requests |-> sent ]
        ELSE IF text.kind = "array"
        THEN [ raised |-> FALSE, ret |-> Slice(pages, num_results),
               log |-> << StMsg("error", "AI filtering error") >>, requests |-> sent ]
        ELSE LET selected_indices == Get(text.data, "selected_companies", << >>)
                 filtered_pages == SelectPages(pages, selected_indices)
             IN  IF filtered_pages # << >>
                 THEN [ raised |-> FALSE, ret |-> Slice(filtered_pages, num_results),
                        log |-> << StMsg("success", "AI validated"),
                                   StMsg("info", "AI Reasoning") >>,
                        requests |-> sent ]
                 ELSE [ raised |-> FALSE, ret |-> Slice(pages, num_results),
                        log |-> << StMsg("warning", "AI filtering returned no valid results") >>,
                        requests |-> sent ]

----------------------------------------------------------------------------
(* The inputs of the model *)

\* search hits handed to the classifier
Hits ==
    { [ title |-> "Acme Corp - Careers", url |-> "https://careers.acme.com/jobs",
        snippet |-> "Join our hiring team", position |-> 1 ],
      [ title |-> "Software Engineer - Indeed.com", url |-> "https://www.indeed.com/job123",
        snippet |-> "Apply now", position |-> 2 ],
      [ title |-> "Acme Team", url |-> "https://careers.acme.com/team",
        snippet |-> "Global corporation", position |-> 5 ],
      [ title |-> "CAREERS at Foo", url |-> "https://WWW.Foo.com/about",
        snippet |-> "About Foo", position |-> 3 ],
      [ title |-> "Foo News", url |-> "https://www.foo.com/news",
        snippet |-> "Join our newsletter", position |-> 4 ],
      [ title |-> "Bar Jobs", url |-> "https://jobs.bar.io/",
        snippet |-> "Tech AGENCY startup", position |-> 6 ],
      [ title |-> "Openings", url |-> "jobs.bar.io/openings", snippet |-> "" ],
      [ title |-> "Technology jobs", url |-> "http://www.foo.com/software",
        snippet |-> "We are hiring", position |-> 0 ],
      [ title |-> "Work at Baz - Jobs", url |-> "http://[baz/jobs",
        snippet |-> "Emerging", position |-> 12 ],
      [ title |-> "", url |-> "", snippet |-> "", position |-> 3 ] }

\* criteria records handed to the classifier
CriteriaSet ==
    { [ industry |-> "Technology & Software",
        company_size |-> "Startups (Small to Medium)",
        num_results |-> 2, location |-> "", exclude_keywords |-> "" ],
      [ industry |-> "Technology & Software",
        company_size |-> "MNCs (Large Corporations)",
        num_results |-> 2, location |-> "USA", exclude_keywords |-> " AGENCY, ," ],
      [ num_results |-> 2 ],
      [ industry |-> "Telecommunications",
        company_size |-> "Startups (Small to Medium)",
        num_results |-> 2, location |-> "", exclude_keywords |-> "bar" ] }

\* the sequences over S of length at most n
BoundedSeq(S, n) == UNION { [1..k -> S] : k \in 0..n }

\* result objects of the search service's organic_results
OrganicResults ==
    { [ title |-> "Acme Corp - Careers", link |-> "https://careers.acme.com/jobs",
        snippet |-> "Join our hiring team", position |-> 1,
        displayed_link |-> "careers.acme.com" ],
      [ title |-> "Technology jobs", link |-> "http://www.foo.com/software",
        snippet |-> "We are hiring" ],
      [ position |-> 3 ] }

\* the k-th result object of an answer that lists one company per result
OrganicCompany(k) ==
    [ title |-> "Company" \o ToString(k) \o " - Careers",
      link |-> "https://company" \o ToString(k) \o ".com/careers",
      snippet |-> "Join our team", position |-> k,
      displayed_link |-> "company" \o ToString(k) \o ".com" ]

\* an answer with more results than the slider can ask candidates for
LongAnswer == [ k \in 1..(SliderMinimum + 1) |-> OrganicCompany(k) ]

\* what the search service answers to one request
SerpResponses ==
    { [ kind |-> "transport_error" ],
      [ kind |-> "http", status_code |-> 200,
        body |-> [ kind |-> "object", data |-> [ organic_results |-> LongAnswer ] ] ] }
      \cup { [ kind |-> "http", status_code |-> c, body |-> [ kind |-> "not_json" ] ] :
                c \in { 200, 429, 500 } }
      \cup { [ kind |-> "http", status_code |-> 200, body |-> b ] :
                b \in { [ kind |-> "not_an_object" ],
                        [ kind |-> "object", data |-> [ search_metadata |-> "ok" ] ] } }
      \cup { [ kind |-> "http", status_code |-> 200,
               body |-> [ kind |-> "object", data |-> [ organic_results |-> r ] ] ] :
                r \in BoundedSeq(OrganicResults, MaxOrganic) }

\* arguments of make_single_serp_call
SerpArgs ==
    { [ industry |-> i, company_size |-> z, location |-> l, num_results |-> 20 ] :
        i \in Range(industry_domains) \cup { "Robotics" },
        z \in Range(company_sizes) \cup { "Any size" },
        l \in { "", "USA" } }

\* the k-th candidate of a ranked list, as filter_career_pages_locally builds them
Candidate(k) ==
    [ company_name    |-> "Company" \o ToString(k),
      title           |-> "Company" \o ToString(k) \o " - Careers",
      career_url      |-> "https://company" \o ToString(k) \o ".com/careers",
      description     |-> "Join our team",
      domain          |-> "company" \o ToString(k) \o ".com",
      industry        |-> "Telecommunications",
      company_size    |-> "MNCs (Large Corporations)",
      relevance_score |-> Max(0, 100 - k) ]

\* the lengths of the candidate lists handed to the language-model filter:
\* a few candidates, or as many as the prompt holds, or more than that
LlmPageCounts ==
    (0..MaxFewPages) \cup (PromptCap..(PromptCap + MaxBeyondPrompt))

\* candidate lists in descending order of relevance_score
RankedCandidates == { [ k \in 1..n |-> Candidate(k) ] : n \in LlmPageCounts }

\* criteria records handed to the language-model filter
LlmCriteria ==
    { [ industry |-> "Telecommunications",
        company_size |-> "MNCs (Large Corporations)",
        num_results |-> n, location |-> "", exclude_keywords |-> "" ] :
        n \in 1..MaxWanted }
      \cup { [ industry |-> "Telecommunications" ] }

\* company numbers a reply may select
SelectableNumbers == { 0, 1, 2, PromptCap, PromptCap + 1 }

\* what a reply text holds between its fences
LlmBodies ==
    { [ kind |-> "not_json" ],
      [ kind |-> "array" ],
      [ kind |-> "object", data |-> [ reasoning |-> "none fits" ] ] }
      \cup { [ kind |-> "object",
               data |-> [ selected_companies |-> sel, reasoning |-> "top picks" ] ] :
                sel \in BoundedSeq(SelectableNumbers, MaxSelected) }

\* what the language-model service answers to one request: a failure of the
\* call, or a reply text
LlmReplies ==
    { [ kind |-> "api_error" ] }
      \cup { [ kind |-> "text", open |-> o, body |-> b, close |-> c ] :
                o \in { "", "fence json", "fence" }, b \in LlmBodies,
                c \in { "", "fence" } }

\* the widget values of a discovery: the two select boxes, the slider, the
\* two text inputs
DiscoverCriteria ==
    { [ industry |-> i, company_size |-> z, num_results |-> SliderMinimum,
        location |-> t[1], exclude_keywords |-> t[2] ] :
        i \in { "Technology & Software", "Telecommunications" },
        z \in Range(company_sizes), t \in { << "", "" >>, << "USA", "foo" >> } }

\* what the language-model service answers in a discovery
DiscoverReplies ==
    { [ kind |-> "api_error" ],
      [ kind |-> "text", open |-> "", close |-> "", body |-> [ kind |-> "not_json" ] ],
      [ kind |-> "text", open |-> "fence json", close |-> "fence",
        body |-> [ kind |-> "object",
                   data |-> [ selected_companies |->
                                [ k \in 1..Len(LongAnswer) |-> Len(LongAnswer) + 1 - k ],
                              reasoning |-> "top picks" ] ] ],
      [ kind |-> "text", open |-> "", close |-> "",
        body |-> [ kind |-> "object", data |-> [ reasoning |-> "none fits" ] ] ] }

NoReply == [ kind |-> "none" ]
NoResult == [ title |-> "", url |-> "", snippet |-> "" ]
NoResponse == [ kind |-> "none" ]
NoArgs == [ industry |-> "", company_size |-> "", location |-> "", num_results |-> 0 ]

\* f as an explicit table: every value of f is computed when the table is built
Tabulated(f) == f @@ f

\* the fields of a raw result that filter_career_pages_locally and
\* calculate_relevance_score read
ReadFields(result) ==
    [ k \in DOMAIN result \cap { "title", "url", "snippet", "position" } |-> result[k] ]

\* the hit at another rank of the answer: position p becomes 10 - p
Repositioned(result) ==
    IF "position" \in DOMAIN result /\ result.position <= 10
    THEN [ result EXCEPT !.position = 10 - result.position ]
    ELSE result

\* the criteria with another choice in the two select boxes
WithIndustryAndSize(crit, industry, company_size) ==
    [ industry |-> industry, company_size |-> company_size ] @@ crit

\* the criteria of a second classifier call after those of a first one
RerunCriteria(crit) ==
    { WithIndustryAndSize(crit, i, z) :
        i \in { "Technology & Software", "Telecommunications" },
        z \in { "Startups (Small to Medium)", "MNCs (Large Corporations)" } }

\* the hits of a classifier call that is made again: those of the first page
\* of an answer
RerunHits == { h \in Hits : h.url # "" /\ "position" \in DOMAIN h /\ h.position <= 5 }

\* the hits that make_single_serp_call builds from the answers
SearchHits == { ReadFields(RawResult(o, "")) : o \in OrganicResults \cup Range(LongAnswer) }

\* every hit with every criteria record the classifier is called on
ClassifierCalls ==
    (Hits \X CriteriaSet)
      \cup (SearchHits \X DiscoverCriteria)
      \cup ((RerunHits \cup { Repositioned(h) : h \in RerunHits })
                \X UNION { RerunCriteria(c) : c \in CriteriaSet })

\* The per-hit results of the operators above on the inputs of the model,
\* each computed once.
PassesOf ==
    Tabulated([ call \in ClassifierCalls |-> IsCareerAndNotExcluded(call[1], call[2]) ])
PageOf ==
    Tabulated([ call \in ClassifierCalls |-> CareerPage(call[1], call[2]) ])

----------------------------------------------------------------------------
(* JobHunterApp.filter_career_pages_locally: the loop, the sort, the call *)

\* Admits without the duplicate-domain test
AdmitsIgnoringDuplicates(result, crit, domains) == PassesOf[ReadFields(result), crit]

\* Admits with a threshold on the relevance score
AdmitsAboveScore(result, crit, domains) ==
    /\ PassesOf[ReadFields(result), crit]
    /\ PageOf[ReadFields(result), crit].domain \notin domains
    /\ PageOf[ReadFields(result), crit].relevance_score >= 30

\* the filtering condition of the loop body
Admits(result, crit, domains) ==
    LET domain == PageOf[ReadFields(result), crit].domain
        is_duplicate == domain \in domains
    IN  PassesOf[ReadFields(result), crit] /\ ~is_duplicate

\* the for loop from its i-th iteration on; yields the two locals at loop exit
RECURSIVE Scan(_, _, _, _, _)
Scan(raw, crit, i, pages, domains) ==
    IF i > Len(raw) THEN [ career_pages |-> pages, excluded_domains |-> domains ]
    ELSE IF Admits(raw[i], crit, domains)
         THEN Scan(raw, crit, i + 1,
                   Append(pages, PageOf[ReadFields(raw[i]), crit]),
                   domains \cup { PageOf[ReadFields(raw[i]), crit].domain })
         ELSE Scan(raw, crit, i + 1, pages, domains)

\* InsertByScore placing a candidate before the candidates of equal score
RECURSIVE InsertByScoreBeforeTies(_, _)
InsertByScoreBeforeTies(sorted, page) ==
    IF sorted = << >> THEN << page >>
    ELSE IF Head(sorted).relevance_score > page.relevance_score
         THEN << Head(sorted) >> \o InsertByScoreBeforeTies(Tail(sorted), page)
         ELSE << page >> \o sorted

\* list.sort(key=relevance_score, reverse=True): stable, descending
RECURSIVE InsertByScore(_, _)
InsertByScore(sorted, page) ==
    IF sorted = << >> THEN << page >>
    ELSE IF Head(sorted).relevance_score >= page.relevance_score
         THEN << Head(sorted) >> \o InsertByScore(Tail(sorted), page)
         ELSE << page >> \o sorted

RECURSIVE SortByScore(_)
SortByScore(pages) ==
    IF pages = << >> THEN << >>
    ELSE InsertByScore(SortByScore(SubSeq(pages, 1, Len(pages) - 1)), pages[Len(pages)])

----------------------------------------------------------------------------
(* State *)

VARIABLES
    serp_api_key,      \* self.serp_api_key; "" when SERP_API_KEY is not set
    serp_args,         \* arguments of make_single_serp_call
    final_query,       \* the query it built
    serp_requests,     \* the GET requests it sent to the search service
    serp_response,     \* the answer it received
    serp_raised,       \* whether it left by an exception
    st_log,            \* what the last call showed through st.*
    raw_results,       \* result of make_single_serp_call, argument of the classifier
    criteria,          \* the criteria record
    career_pages,      \* what the last call of filter_career_pages_locally returned
    excluded_domains,  \* its local excluded_domains when it returned
    azure_client,      \* whether self.azure_client is a client (TRUE) or None
    llm_reply,         \* what the language-model service answers to a request
    llm_requests,      \* the chat requests sent to the language-model service
    llm_raised,        \* whether filter_career_pages_with_llm left by an exception
    final_pages,       \* what filter_career_pages_with_llm returned; run's final_pages
    use_ai_validation, \* the "AI Career Page Validation" checkbox
    events,            \* what the last discovery did, in the order it did it
    arg_result,        \* the raw result the three helper functions are called on
    ret_domain,        \* what extract_domain returned for it
    ret_company_name,  \* what extract_company_name returned for it
    ret_score,         \* what calculate_relevance_score returned for it
    runs               \* number of calls made so far

vars == << serp_api_key, serp_args, final_query, serp_requests, serp_response,
           serp_raised, st_log,
           raw_results, criteria, career_pages, excluded_domains,
           azure_client, llm_reply, llm_requests, llm_raised, final_pages,
           use_ai_validation, events,
           arg_result, ret_domain, ret_company_name, ret_score, runs >>

serpVars == << serp_api_key, serp_args, final_query, serp_requests, serp_response,
              serp_raised >>
classifierVars == << career_pages, excluded_domains >>
llmVars == << azure_client, llm_reply, llm_requests, llm_raised, final_pages >>
discoverVars == << use_ai_validation, events >>
helperVars == << arg_result, ret_domain, ret_company_name, ret_score >>

\* no search call has been made
SerpIdle ==
    /\ final_query = ""
    /\ serp_requests = << >>
    /\ serp_response = NoResponse
    /\ serp_raised = FALSE

\* a helper function that has not been called
NotCalled == [ called |-> FALSE ]

\* no helper function has been called on its own
HelpersIdle ==
    /\ arg_result = NoResult
    /\ ret_domain = NotCalled
    /\ ret_company_name = NotCalled
    /\ ret_score = NotCalled

\* no discovery has been made
DiscoverIdle ==
    /\ use_ai_validation = FALSE
    /\ events = << >>

\* no language-model call has been made, and none can be
LlmIdle ==
    /\ azure_client = FALSE
    /\ llm_reply = NoReply
    /\ llm_requests = << >>
    /\ llm_raised = FALSE
    /\ final_pages = << >>

----------------------------------------------------------------------------
(* The classifier, called on fixed arguments *)

\* locals that keep the excluded_domains of the previous call
StaleLocals == [ career_pages |-> << >>, excluded_domains |-> excluded_domains ]

\* the locals career_pages and excluded_domains as each call creates them
FreshLocals == [ career_pages |-> << >>, excluded_domains |-> {} ]

\* what filter_career_pages_locally shows: nothing for an empty list,
\* otherwise st.info before the loop and st.success after the sort
ClassifierLog(raw) ==
    IF raw = << >> THEN << >>
    ELSE << StMsg("info", "Local Filtering"),
            StMsg("success", "Local Filtering Complete") >>

\* the locals when the call returns
LocalsAtReturn(raw, crit) ==
    IF raw = << >> THEN FreshLocals
    ELSE LET loop == Scan(raw, crit, 1, FreshLocals.career_pages,
                          FreshLocals.excluded_domains)
         IN  [ career_pages |-> SortByScore(loop.career_pages),
               excluded_domains |-> loop.excluded_domains ]

InitClassifier ==
    /\ raw_results \in BoundedSeq(Hits, MaxHits)
    /\ criteria \in CriteriaSet
    /\ career_pages = << >>
    /\ excluded_domains = {}
    /\ runs = 0
    /\ serp_api_key = ""
    /\ serp_args = NoArgs
    /\ SerpIdle
    /\ LlmIdle
    /\ DiscoverIdle
    /\ HelpersIdle
    /\ st_log = << >>

\* one call filter_career_pages_locally(raw_results, criteria)
filter_career_pages_locally ==
    /\ runs < MaxRuns
    /\ \E locals \in { LocalsAtReturn(raw_results, criteria) } :
           /\ career_pages' = locals.career_pages
           /\ excluded_domains' = locals.excluded_domains
    /\ st_log' = ClassifierLog(raw_results)
    /\ runs' = runs + 1
    /\ UNCHANGED << raw_results, criteria, serpVars, llmVars, discoverVars, helperVars >>

NextClassifier == filter_career_pages_locally

SpecClassifier == InitClassifier /\ [][NextClassifier]_vars

----------------------------------------------------------------------------
(* The classifier called, and then called again on the same hits with other
   select-box choices or other ranks *)

InitRerun ==
    /\ raw_results \in BoundedSeq(RerunHits, MaxRerunHits)
    /\ criteria \in CriteriaSet
    /\ career_pages = << >>
    /\ excluded_domains = {}
    /\ runs = 0
    /\ serp_api_key = ""
    /\ serp_args = NoArgs
    /\ SerpIdle
    /\ LlmIdle
    /\ DiscoverIdle
    /\ HelpersIdle
    /\ st_log = << >>

\* one more call filter_career_pages_locally(raw_results, criteria), with
\* arguments chosen anew
filter_career_pages_locally_again ==
    /\ runs >= 1
    /\ runs < MaxRuns
    /\ \E raw \in { raw_results,
                    [ k \in 1..Len(raw_results) |-> Repositioned(raw_results[k]) ] },
          crit \in RerunCriteria(criteria) :
          /\ raw_results' = raw
          /\ criteria' = crit
          /\ \E locals \in { LocalsAtReturn(raw, crit) } :
                 /\ career_pages' = locals.career_pages
                 /\ excluded_domains' = locals.excluded_domains
          /\ st_log' = ClassifierLog(raw)
    /\ runs' = runs + 1
    /\ UNCHANGED << serpVars, llmVars, discoverVars, helperVars >>

NextRerun ==
    \/ filter_career_pages_locally
    \/ filter_career_pages_locally_again

SpecRerun == InitRerun /\ [][NextRerun]_vars

----------------------------------------------------------------------------
(* The search call, called on any arguments against any response *)

InitSerp ==
    /\ serp_api_key \in { "", "key" }
    /\ serp_args \in SerpArgs
    /\ SerpIdle
    /\ LlmIdle
    /\ DiscoverIdle
    /\ HelpersIdle
    /\ st_log = << >>
    /\ raw_results = << >>
    /\ criteria = [ num_results |-> 20 ]
    /\ career_pages = << >>
    /\ excluded_domains = {}
    /\ runs = 0

\* one call make_single_serp_call(industry, company_size, location, num_results),
\* answered by any response
make_single_serp_call ==
    /\ runs < MaxRuns
    /\ \E response \in SerpResponses :
          \E call \in { MakeSingleSerpCall(serp_api_key, serp_args, response) } :
              /\ final_query' = call.final_query
              /\ serp_requests' = call.requests
              /\ serp_response' = IF call.requests = << >> THEN NoResponse ELSE response
              /\ serp_raised' = call.raised
              /\ st_log' = call.log
              /\ raw_results' = call.ret
    /\ runs' = runs + 1
    /\ UNCHANGED << serp_api_key, serp_args, criteria, classifierVars, llmVars,
                    discoverVars, helperVars >>

NextSerp == make_single_serp_call

SpecSerp == InitSerp /\ [][NextSerp]_vars

----------------------------------------------------------------------------
(* The language-model filter, called on any ranked list against any reply *)

InitLlm ==
    /\ azure_client \in BOOLEAN
    /\ career_pages \in RankedCandidates
    /\ criteria \in LlmCriteria
    /\ llm_reply \in LlmReplies
    /\ llm_requests = << >>
    /\ llm_raised = FALSE
    /\ final_pages = << >>
    /\ excluded_domains = {}
    /\ raw_results = << >>
    /\ serp_api_key = ""
    /\ serp_args = NoArgs
    /\ SerpIdle
    /\ DiscoverIdle
    /\ HelpersIdle
    /\ st_log = << >>
    /\ runs = 0

\* one call filter_career_pages_with_llm(career_pages, criteria), the service
\* answering llm_reply if it is asked
filter_career_pages_with_llm ==
    /\ runs < MaxRuns
    /\ \E call \in { FilterCareerPagesWithLlm(azure_client, career_pages, criteria,
                                                llm_reply) } :
           /\ final_pages' = call.ret
           /\ llm_requests' = call.requests
           /\ llm_raised' = call.raised
           /\ st_log' = call.log
    /\ runs' = runs + 1
    /\ UNCHANGED << azure_client, llm_reply, career_pages, excluded_domains,
                    criteria, raw_results, serpVars, discoverVars, helperVars >>

NextLlm == filter_career_pages_with_llm

SpecLlm == InitLlm /\ [][NextLlm]_vars

----------------------------------------------------------------------------
(* JobHunterApp.run: the "Discover Career Pages" button *)

\* the guard of the language-model stage, taken whatever the checkbox says
TakesAiStageUnchecked(checkbox, client) == client

\* if use_ai_validation and self.azure_client
TakesAiStage(checkbox, client) == checkbox /\ client

\* make_single_serp_call not called
NoSerpCall ==
    [ raised |-> FALSE, ret |-> << >>, log |-> << >>, requests |-> << >>,
      final_query |-> "" ]

\* one entry of the events log for each element of a list of requests
RECURSIVE EventsOf(_, _)
EventsOf(requests, name) ==
    IF requests = << >> THEN << >>
    ELSE << name >> \o EventsOf(Tail(requests), name)

\* what one press of the button did: the search call, whether the
\* classifier was called and its locals, the language-model requests, the
\* list handed to the display, the events in order, the messages shown
Outcome(args, serp, classified, locals, requests, shown, happened, log) ==
    [ args |-> args, serp |-> serp, classified |-> classified, locals |-> locals,
      llm_requests |-> requests, final_pages |-> shown, events |-> happened,
      log |-> log ]

\* Step 4: display the final pages, or warn that none matched
DisplayStep(final) ==
    IF final # << >> THEN << StMsg("display", "Search Summary") >>
    ELSE << StMsg("warning", "No career pages found") >>

\* Step 3 without the language model and without the slice
TruncateStageKeepsAll(filtered_pages, search_criteria) ==
    [ raised |-> FALSE, ret |-> filtered_pages, log |-> << >>, requests |-> << >> ]

\* Step 3 without the language model: final_pages = filtered_pages[:num_career_results]
TruncateStage(filtered_pages, search_criteria) ==
    [ raised |-> FALSE, ret |-> Slice(filtered_pages, search_criteria.num_results),
      log |-> << >>, requests |-> << >> ]

\* Steps 3 and 4, the stage of step 3 having returned stage
AfterStage(args, serp, locals, stage) ==
    Outcome(args, serp, TRUE, locals, stage.requests, stage.ret,
            EventsOf(serp.requests, "search request")
                \o << "classification" >>
                \o EventsOf(stage.requests, "language-model request"),
            serp.log \o ClassifierLog(serp.ret) \o stage.log \o DisplayStep(stage.ret))

\* Steps 2 to 4, filter_career_pages_locally having returned with locals
AfterClassification(client, checkbox, search_criteria, reply, args, serp, locals) ==
    AfterStage(args, serp, locals,
               IF TakesAiStage(checkbox, client)
               THEN FilterCareerPagesWithLlm(client, locals.career_pages,
                                             search_criteria, reply)
               ELSE TruncateStage(locals.career_pages, search_criteria))

\* AfterSearch going on to the classifier whatever the search call returned
AfterSearchAlwaysClassifies(client, checkbox, search_criteria, reply, args, serp) ==
    AfterClassification(client, checkbox, search_criteria, reply, args, serp,
                        LocalsAtReturn(serp.ret, search_criteria))

\* the handler from "if raw_results" on, make_single_serp_call having returned serp
AfterSearch(client, checkbox, search_criteria, reply, args, serp) ==
    IF serp.ret = << >>
    THEN Outcome(args, serp, FALSE, FreshLocals, << >>, << >>,
                 EventsOf(serp.requests, "search request"),
                 serp.log \o << StMsg("error", "No career pages discovered") >>)
    ELSE AfterClassification(client, checkbox, search_criteria, reply, args, serp,
                             LocalsAtReturn(serp.ret, search_criteria))

\* the arguments of the search call: num_career_results * 2 results are asked for
SearchArgs(search_criteria) ==
    [ industry     |-> search_criteria.industry,
      company_size |-> search_criteria.company_size,
      location     |-> search_criteria.location,
      num_results  |-> search_criteria.num_results * 2 ]

\* The whole handler of the button for the widget values search_criteria,
\* the search service answering response and the language-model service reply.
Discover(api_key, client, checkbox, search_criteria, response, reply) ==
    IF ~Truthy(search_criteria.industry)
    THEN Outcome(NoArgs, NoSerpCall, FALSE, FreshLocals, << >>, << >>, << >>,
                 << StMsg("error", "Please select an industry domain") >>)
    ELSE AfterSearch(client, checkbox, search_criteria, reply,
                     SearchArgs(search_criteria),
                     MakeSingleSerpCall(api_key, SearchArgs(search_criteria), response))

Init ==
    /\ serp_api_key \in { "", "key" }
    /\ azure_client \in BOOLEAN
    /\ use_ai_validation \in BOOLEAN
    /\ criteria \in DiscoverCriteria
    /\ llm_reply \in DiscoverReplies
    /\ serp_args = NoArgs
    /\ SerpIdle
    /\ raw_results = << >>
    /\ career_pages = << >>
    /\ excluded_domains = {}
    /\ llm_requests = << >>
    /\ llm_raised = FALSE
    /\ final_pages = << >>
    /\ events = << >>
    /\ HelpersIdle
    /\ st_log = << >>
    /\ runs = 0

\* one press of the button, the search service answering any response
discover_career_pages ==
    /\ runs < MaxRuns
    /\ \E response \in SerpResponses :
          \E done \in { Discover(serp_api_key, azure_client, use_ai_validation,
                                  criteria, response, llm_reply) } :
              /\ serp_args' = done.args
              /\ final_query' = done.serp.final_query
              /\ serp_requests' = done.serp.requests
              /\ serp_response' = IF done.serp.requests = << >> THEN NoResponse
                                  ELSE response
              /\ serp_raised' = done.serp.raised
              /\ raw_results' = done.serp.ret
              /\ career_pages' = done.locals.career_pages
              /\ excluded_domains' = done.locals.excluded_domains
              /\ llm_requests' = done.llm_requests
              /\ llm_raised' = FALSE
              /\ final_pages' = done.final_pages
              /\ events' = done.events
              /\ st_log' = done.log
    /\ runs' = runs + 1
    /\ UNCHANGED << serp_api_key, azure_client, use_ai_validation, criteria, llm_reply,
                    helperVars >>

Next == discover_career_pages

Spec == Init /\ [][Next]_vars

----------------------------------------------------------------------------
(* The three helper functions, each called on its own on any raw result *)

\* raw results the helper functions are called on: the hits of the
\* classifier and hits with other shapes of host, title and position
ProbeHits ==
    Hits \cup
    { [ title |-> "Careers - Globex", url |-> "https://awww.example.com/talent",
        snippet |-> "", position |-> 10 ],
      [ title |-> "Initech  - Job Board", url |-> "https://my-jobs.example.org/hiring",
        snippet |-> "Fortune 500", position |-> 9 ],
      [ title |-> "An Extremely Long Company Name That Goes On And On Forever - Careers",
        url |-> "https://www.careers.big-co.com/", snippet |-> "", position |-> 1 ],
      [ title |-> "Openings at Hooli", url |-> "http://localhost/openings",
        snippet |-> "", position |-> 2 ],
      [ title |-> "JOB Board - Listings", url |-> "https://newjobs.io/employment",
        snippet |-> "" ],
      [ title |-> "Umbrella - Retail", url |-> "HTTPS://Jobs.Umbrella.COM/Careers",
        snippet |-> "Scale-up", position |-> 11 ],
      [ title |-> "Consolidated International Widgets And Gadgets Co  - Careers",
        url |-> "https://widgets.example.com/about", snippet |-> "", position |-> 7 ],
      [ title |-> "Consolidated International Widgets And Gadgets Cos - Careers",
        url |-> "https://www.widgets-gadgets.example.com/about", snippet |-> "",
        position |-> 8 ],
      [ title |-> "Jobs at Baz", url |-> "http://[baz/careers", snippet |-> "",
        position |-> 4 ] }

\* The results of the three helper functions on these inputs, each computed once.
ExtractDomainOf ==
    Tabulated([ h \in ProbeHits |-> extract_domain(h.url) ])
ExtractCompanyNameOf ==
    Tabulated([ h \in ProbeHits |-> extract_company_name(h.title, h.url) ])
ScoreStepsOf ==
    Tabulated([ h \in ProbeHits, c \in CriteriaSet |-> ScoreSteps(h, c) ])
RelevanceScoreOf ==
    Tabulated([ h \in ProbeHits, c \in CriteriaSet |-> calculate_relevance_score(h, c) ])

InitHelpers ==
    /\ arg_result \in ProbeHits
    /\ criteria \in CriteriaSet
    /\ ret_domain = NotCalled
    /\ ret_company_name = NotCalled
    /\ ret_score = NotCalled
    /\ raw_results = << >>
    /\ career_pages = << >>
    /\ excluded_domains = {}
    /\ serp_api_key = ""
    /\ serp_args = NoArgs
    /\ SerpIdle
    /\ LlmIdle
    /\ DiscoverIdle
    /\ st_log = << >>
    /\ runs = 0

\* one call extract_domain(result['url'])
call_extract_domain ==
    /\ ret_domain = NotCalled
    /\ ret_domain' = [ called |-> TRUE, raised |-> FALSE,
                       value |-> ExtractDomainOf[arg_result] ]
    /\ runs' = runs + 1
    /\ UNCHANGED << arg_result, ret_company_name, ret_score, criteria, raw_results,
                    classifierVars, serpVars, llmVars, discoverVars, st_log >>

\* one call extract_company_name(result['title'], result['url'])
call_extract_company_name ==
    /\ ret_company_name = NotCalled
    /\ ret_company_name' = [ called |-> TRUE, raised |-> FALSE,
                             value |-> ExtractCompanyNameOf[arg_result] ]
    /\ runs' = runs + 1
    /\ UNCHANGED << arg_result, ret_domain, ret_score, criteria, raw_results,
                    classifierVars, serpVars, llmVars, discoverVars, st_log >>

\* one call calculate_relevance_score(result, criteria)
call_calculate_relevance_score ==
    /\ ret_score = NotCalled
    /\ ret_score' = [ called |-> TRUE, raised |-> FALSE,
                      value |-> RelevanceScoreOf[arg_result, criteria],
                      steps |-> ScoreStepsOf[arg_result, criteria] ]
    /\ runs' = runs + 1
    /\ UNCHANGED << arg_result, ret_domain, ret_company_name, criteria, raw_results,
                    classifierVars, serpVars, llmVars, discoverVars, st_log >>

NextHelpers ==
    \/ call_extract_domain
    \/ call_extract_company_name
    \/ call_calculate_relevance_score

SpecHelpers == InitHelpers /\ [][NextHelpers]_vars

----------------------------------------------------------------------------
(* Vocabulary of the properties of the classifier *)

\* the hit a candidate was built from: the first hit of the input that has
\* the candidate's url, title and snippet
IsSourceOf(hit, page) ==
    /\ hit.url = page.career_url
    /\ hit.title = page.title
    /\ hit.snippet = page.description

SrcIndex(page, raw) ==
    CHOOSE i \in 1..Len(raw) :
        /\ IsSourceOf(raw[i], page)
        /\ \A j \in 1..(i - 1) : ~IsSourceOf(raw[j], page)

\* the positions of the input whose hit is the source of a returned candidate
AdmittedIdx(pages, raw) ==
    { i \in 1..Len(raw) :
        \E k \in 1..Len(pages) :
            /\ IsSourceOf(raw[i], pages[k])
            /\ \A j \in 1..(i - 1) : ~IsSourceOf(raw[j], pages[k]) }

\* the caller's exclusion terms: exclude_keywords split on ",", trimmed,
\* empty terms dropped
CallerTerms(crit) ==
    IF "exclude_keywords" \in DOMAIN crit
    THEN { Strip(t) : t \in Range(Split(crit.exclude_keywords, ",")) } \ { "" }
    ELSE {}

\* text contains term, case-insensitively
ContainsNoCase(text, term) == In(Lower(term), Lower(text))

HitContainsTerm(hit, term) ==
    \/ ContainsNoCase(hit.url, term)
    \/ ContainsNoCase(hit.title, term)
    \/ ContainsNoCase(hit.snippet, term)

HasExclusionTerm ==
    Tabulated([ h \in Hits, c \in CriteriaSet |->
        \E t \in Range(fixed_exclude_patterns) \cup CallerTerms(c) :
            HitContainsTerm(h, t) ])

HasCallerTerm ==
    Tabulated([ h \in Hits, c \in CriteriaSet |->
        \E t \in CallerTerms(c) : HitContainsTerm(h, t) ])

FirstSixUrlKeywords == { "career", "careers", "job", "jobs", "hiring", "employment" }

\* the career signal, every text lower-cased
HasSignal ==
    Tabulated([ h \in Hits |->
        \/ \E w \in Range(career_url_keywords) : In(w, Lower(h.url))
        \/ \E w \in Range(career_title_keywords) : In(w, Lower(h.title))
        \/ \E w \in FirstSixUrlKeywords : In(w, Lower(h.snippet)) ])

\* the career signal with only the URL lower-cased
HasSignalTextAsGiven ==
    Tabulated([ h \in Hits |->
        \/ \E w \in Range(career_url_keywords) : In(w, Lower(h.url))
        \/ \E w \in Range(career_title_keywords) : In(w, h.title)
        \/ \E w \in FirstSixUrlKeywords : In(w, h.snippet) ])

DomainOf == Tabulated([ h \in Hits |-> extract_domain(h.url) ])

\* hit i of the input passes the career-signal and exclusion rules
PassesRules(i) ==
    /\ HasSignal[raw_results[i]]
    /\ ~HasExclusionTerm[raw_results[i], criteria]

Returned == runs >= 1

----------------------------------------------------------------------------
(* Properties of filter_career_pages_locally (SpecClassifier) *)

\* C1: the returned list has no two candidates with the same domain, and the
\* candidate of a domain is built from the earliest hit of that domain, in
\* scan order, that passes the career-signal and exclusion rules; every
\* field of it comes from that one hit.
C1_OnePerDomainFirstWins ==
    Returned =>
        /\ \A a, b \in 1..Len(career_pages) :
                a # b => career_pages[a].domain # career_pages[b].domain
        /\ \A k \in 1..Len(career_pages) :
                \E i \in 1..Len(raw_results) :
                    /\ IsSourceOf(raw_results[i], career_pages[k])
                    /\ career_pages[k].domain = DomainOf[raw_results[i]]
        /\ \A i \in 1..Len(raw_results) :
                PassesRules(i) =>
                    LET first == CHOOSE j \in 1..i :
                                    /\ PassesRules(j)
                                    /\ DomainOf[raw_results[j]] = DomainOf[raw_results[i]]
                                    /\ \A m \in 1..(j - 1) :
                                          ~(/\ PassesRules(m)
                                            /\ DomainOf[raw_results[m]]
                                                 = DomainOf[raw_results[i]])
                    IN  \E k \in 1..Len(career_pages) :
                            /\ career_pages[k].domain = DomainOf[raw_results[i]]
                            /\ IsSourceOf(raw_results[first], career_pages[k])

\* a later hit of a domain passed the rules and was discarded
C1_Witness ==
    /\ Returned
    /\ \E i, j \in 1..Len(raw_results) :
          /\ i < j
          /\ PassesRules(i) /\ PassesRules(j)
          /\ DomainOf[raw_results[i]] = DomainOf[raw_results[j]]
          /\ raw_results[i].url # raw_results[j].url
          /\ \E k \in 1..Len(career_pages) : IsSourceOf(raw_results[i], career_pages[k])
          /\ \A k \in 1..Len(career_pages) : ~IsSourceOf(raw_results[j], career_pages[k])

\* C2: the returned list is in descending order of relevance_score, and
\* candidates of equal score are in the order of their source hits.
C2_SortedDescendingStable ==
    Returned =>
        \A a, b \in 1..Len(career_pages) :
            a < b =>
                /\ career_pages[a].relevance_score >= career_pages[b].relevance_score
                /\ career_pages[a].relevance_score = career_pages[b].relevance_score
                     => SrcIndex(career_pages[a], raw_results)
                          < SrcIndex(career_pages[b], raw_results)

\* the sort moved a candidate forward and kept a tie in scan order
C2_Witness ==
    /\ Returned
    /\ Len(career_pages) = 3
    /\ \E a, b \in 1..3 :
          /\ a < b
          /\ career_pages[a].relevance_score = career_pages[b].relevance_score
    /\ \E a, b \in 1..3 :
          /\ a < b
          /\ SrcIndex(career_pages[a], raw_results) > SrcIndex(career_pages[b], raw_results)

\* C3: no returned candidate has a source hit whose URL, title or snippet
\* contains, case-insensitively, a term of the fixed exclusion list or a
\* term of the caller's exclude_keywords.
C3_NoExcludedTermAdmitted ==
    Returned =>
        \A k \in 1..Len(career_pages) :
            ~HasExclusionTerm[raw_results[SrcIndex(career_pages[k], raw_results)], criteria]

\* a hit with a career signal was kept out by a caller-supplied term while
\* another hit was admitted
C3_Witness ==
    /\ Returned
    /\ career_pages # << >>
    /\ \E i \in 1..Len(raw_results) :
          /\ HasSignal[raw_results[i]]
          /\ HasCallerTerm[raw_results[i], criteria]
          /\ \A k \in 1..Len(career_pages) : ~IsSourceOf(raw_results[i], career_pages[k])

\* hit i is admitted exactly when it has the signal, has no exclusion term
\* and no earlier admitted hit has its domain
AdmissionRule(signal) ==
    \A i \in 1..Len(raw_results) :
        i \in AdmittedIdx(career_pages, raw_results)
          <=> /\ signal[raw_results[i]]
              /\ ~HasExclusionTerm[raw_results[i], criteria]
              /\ \A j \in 1..(i - 1) :
                    j \in AdmittedIdx(career_pages, raw_results)
                        => DomainOf[raw_results[j]] # DomainOf[raw_results[i]]

----------------------------------------------------------------------------
(* Properties of make_single_serp_call (SpecSerp) *)

SerpReturned == runs >= 1 /\ serp_args \in SerpArgs

\* the query as the claim composes it
QueryAsClaimed(args) ==
    "(" \o (IF args.industry \in DOMAIN industry_keywords
            THEN industry_keywords[args.industry] ELSE args.industry) \o ")"
      \o " (" \o size_keywords[args.company_size] \o ")"
      \o (IF args.location # "" THEN " location:" \o args.location ELSE "")
      \o " (careers OR jobs OR hiring OR employment)"

\* C6: for a company size of the table, the query is the industry group (the
\* raw label when the industry is not in the table), the size group, the
\* location clause exactly when location is non-empty, and the fixed group,
\* joined by single spaces; it is the q parameter of the request, and a
\* function of the three inputs.
C6_QueryShape ==
    (/\ SerpReturned
     /\ serp_api_key # ""
     /\ serp_args.company_size \in DOMAIN size_keywords)
        => /\ final_query = QueryAsClaimed(serp_args)
           /\ Len(serp_requests) = 1
           /\ serp_requests[1].q = final_query

\* a query was built for an industry that is not in the table, without location
C6_Witness ==
    /\ SerpReturned
    /\ serp_api_key # ""
    /\ serp_args.industry \notin DOMAIN industry_keywords
    /\ serp_args.company_size \in DOMAIN size_keywords
    /\ serp_args.location = ""
    /\ ~In("location:", final_query)
    /\ In("(Robotics)", final_query)

\* the call failed: no API key, a transport failure, a status other than 200
\* or a body that is not JSON
SerpFailed ==
    \/ serp_api_key = ""
    \/ serp_response.kind = "transport_error"
    \/ /\ serp_response.kind = "http"
       /\ \/ serp_response.status_code # 200
          \/ serp_response.body.kind = "not_json"

\* C10: when there is no API key, the request fails at transport level, the
\* status is not 200 or the body is not JSON, make_single_serp_call shows an
\* error and returns an empty list, and it raises no exception.
C10_FailureGivesEmptyList ==
    SerpReturned =>
        /\ ~serp_raised
        /\ SerpFailed =>
              /\ raw_results = << >>
              /\ \E k \in 1..Len(st_log) : st_log[k].level = "error"

\* a 200 response whose body is not JSON was received
C10_Witness ==
    /\ SerpReturned
    /\ serp_response.kind = "http"
    /\ serp_response.status_code = 200
    /\ serp_response.body.kind = "not_json"
    /\ raw_results = << >>

----------------------------------------------------------------------------
(* Properties of filter_career_pages_with_llm (SpecLlm) *)

\* the call has returned
LlmReturned == runs > 0

\* criteria.get('num_results', 20) of the call
RequestedCount == Get(criteria, "num_results", DefaultNumResults)

\* the service gave a reply text that is not a JSON object
ReplyCannotBeParsed ==
    /\ llm_reply.kind = "text"
    /\ llm_reply.body.kind # "object"

\* C7: whenever the language-model client is absent or the service's reply
\* cannot be parsed, the call raises nothing and returns the candidates it
\* was given, in their order, cut to num_results.
C7_FallbackIsTruncated ==
    (LlmReturned /\ (~azure_client \/ ReplyCannotBeParsed))
        => /\ ~llm_raised
           /\ final_pages = Slice(career_pages, RequestedCount)

\* the reply text of the service parses to an object that selects companies
ReplySelects ==
    /\ llm_reply.kind = "text"
    /\ AfterFenceStrip(llm_reply).kind = "object"
    /\ "selected_companies" \in DOMAIN llm_reply.body.data

\* the numbered summaries that were submitted in the prompt
SubmittedBatch == llm_requests[1].companies

\* the selected numbers that name a company of the submitted batch, in the
\* order selected
SelectedOfBatch ==
    LET InBatch(idx) == 1 <= idx /\ idx <= Len(SubmittedBatch)
    IN  SelectSeq(llm_reply.body.data.selected_companies, InBatch)

\* C8: when the reply parses to a non-empty valid selection, the call returns,
\* in the order selected, the candidates at the selected numbers of the batch
\* submitted in the prompt, numbers outside the batch ignored, cut to
\* num_results.
C8_SelectionFromSubmittedBatch ==
    (LlmReturned /\ llm_requests # << >> /\ ReplySelects /\ SelectedOfBatch # << >>)
        => final_pages =
              Slice([ k \in 1..Len(SelectedOfBatch) |->
                        SubmittedBatch[SelectedOfBatch[k]].page ],
                    RequestedCount)

----------------------------------------------------------------------------
(* Properties of the "Discover Career Pages" button (Spec) *)

\* a discovery has been made
Discovered == runs > 0

\* the language-model request comes only with the checkbox on and a client
LlmRequestOnlyWhenAllowed ==
    (\E k \in 1..Len(events) : events[k] = "language-model request")
        => (use_ai_validation /\ azure_client)

\* C9 as stated: one discovery makes exactly one search request, then at most
\* one classification, then at most one language-model request, in this
\* order; no language-model request with AI validation off or the client
\* unconfigured.
C9_ExactlyOneSearchRequest ==
    Discovered =>
        /\ events \in { << "search request" >>,
                        << "search request", "classification" >>,
                        << "search request", "classification",
                           "language-model request" >> }
        /\ LlmRequestOnlyWhenAllowed

\* C9: one discovery makes at most one search request (exactly one when a
\* search API key is configured, none otherwise), then at most one
\* classification, then at most one language-model request, in this order; no
\* language-model request with AI validation off or the client unconfigured.
C9_StagesInOrder ==
    Discovered =>
        /\ events \in { << >>,
                        << "search request" >>,
                        << "search request", "classification" >>,
                        << "search request", "classification",
                           "language-model request" >> }
        /\ (events # << >>) <=> Truthy(serp_api_key)
        /\ LlmRequestOnlyWhenAllowed

\* a discovery went through the three stages and showed what the
\* language-model stage selected
C9_Witness ==
    /\ Discovered
    /\ events = << "search request", "classification", "language-model request" >>
    /\ Len(final_pages) = 2
    /\ final_pages # career_pages

----------------------------------------------------------------------------
(* Retries of the search call (SpecSerp) *)

\* the search service answered with HTTP 429
RateLimited ==
    /\ serp_response.kind = "http"
    /\ serp_response.status_code = 429

\* C11: a rate-limiting (HTTP 429) answer of the search service is followed
\* by one further attempt, so the call has sent two requests; after any other
\* answer the call has sent no more than the one request.
C11_RateLimitRetriedOnce ==
    SerpReturned =>
        IF RateLimited THEN Len(serp_requests) = 2
        ELSE Len(serp_requests) <= 1

----------------------------------------------------------------------------
(* Later properties of the "Discover Career Pages" button (Spec) *)

\* the search call of the discovery failed or returned no hits
SearchGaveNothing == raw_results = << >>

\* the discovery ended by reporting that nothing was discovered
ReportedNothingDiscovered ==
    /\ st_log # << >>
    /\ st_log[Len(st_log)] = StMsg("error", "No career pages discovered")

\* C12: if the search call of a discovery fails or returns no hits, the
\* discovery calls neither the classifier nor the language model and ends by
\* reporting that nothing was discovered.
C12_NothingAfterEmptySearch ==
    (Discovered /\ SearchGaveNothing) =>
        /\ \A k \in 1..Len(events) :
              events[k] \notin { "classification", "language-model request" }
        /\ llm_requests = << >>
        /\ \A k \in 1..Len(st_log) :
              st_log[k] \notin { StMsg("info", "Local Filtering"),
                                 StMsg("success", "Local Filtering Complete"),
                                 StMsg("warning", "Azure OpenAI not configured") }
        /\ ReportedNothingDiscovered

\* a discovery whose search request failed in transport, with the checkbox on
\* and a client configured
C12_Witness ==
    /\ Discovered
    /\ serp_response.kind = "transport_error"
    /\ use_ai_validation
    /\ azure_client
    /\ events = << "search request" >>
    /\ ReportedNothingDiscovered


----------------------------------------------------------------------------
(* Vocabulary of the statements about the helper functions *)

\* the url has a host the parser can read
HasParseableHost(url) == ~UrlParseRaises(url) /\ Netloc(url) # ""

\* s with prefix p taken off its front once, when it starts with p
WithoutLeading(s, p) == IF Upto(s, Len(p)) = p THEN From(s, Len(p) + 1) ELSE s

\* C13: for a URL with a parseable host, extract_domain returns the host
\* lower-cased with only a leading "www." removed; a "www." that is not at
\* the front of the host is left in place.
C13_OnlyLeadingWwwRemoved ==
    (ret_domain.called /\ HasParseableHost(arg_result.url))
        => /\ ~ret_domain.raised
           /\ ret_domain.value = WithoutLeading(Lower(Netloc(arg_result.url)), "www.")

\* C14: for a URL without a parseable host (for example one without a
\* scheme), extract_domain does not raise and returns the raw URL string as
\* the domain.
C14_RawUrlWhenNoHost ==
    (ret_domain.called /\ ~HasParseableHost(arg_result.url))
        => /\ ~ret_domain.raised
           /\ ret_domain.value = arg_result.url

\* the text of the title before its first " - " (the whole title without one)
TextBeforeFirstDash(title) ==
    LET i == Find(" - ", title, 1)
    IN  IF i = 0 THEN title ELSE Upto(title, i - 1)

\* shorter than 50 characters and free of the words career, job, hiring
ShortAndFreeOfWords(text) ==
    /\ Len(text) < 50
    /\ \A k \in 1..Len(CompanyWords) : ~In(CompanyWords[k], Lower(text))

\* C15 (as stated): extract_company_name returns the text before the first
\* " - " of the title if and only if the title contains " - ", that text is
\* shorter than 50 characters and contains none of career, job, hiring in any
\* letter case; in every other case the name is derived from the URL's domain.
C15_TitleTextAsStated ==
    ret_company_name.called =>
        LET title == arg_result.title
            text == TextBeforeFirstDash(title)
        IN  IF In(" - ", title) /\ ShortAndFreeOfWords(text)
            THEN ret_company_name.value = text
            ELSE ~UrlParseRaises(arg_result.url)
                    => ret_company_name.value
                            = company_name_from_domain(arg_result.url)

\* C15 (amended): extract_company_name returns the text before the first
\* " - " of the title with its surrounding whitespace stripped, if and only if
\* the title contains " - " and the stripped text is shorter than 50
\* characters and contains none of career, job, hiring in any letter case; in
\* every other case the name is derived from the URL's domain, or is
\* "Unknown Company" when the URL cannot be parsed.
C15_StrippedTitleText ==
    ret_company_name.called =>
        LET title == arg_result.title
            text == Strip(TextBeforeFirstDash(title))
        IN  /\ ~ret_company_name.raised
            /\ IF In(" - ", title) /\ ShortAndFreeOfWords(text)
               THEN ret_company_name.value = text
               ELSE ret_company_name.value
                        = (IF UrlParseRaises(arg_result.url) THEN "Unknown Company"
                           ELSE company_name_from_domain(arg_result.url))

\* a title whose text before " - " ends in a blank, returned without it
C15_Witness ==
    /\ ret_company_name.called
    /\ In(" - ", arg_result.title)
    /\ TextBeforeFirstDash(arg_result.title) # Strip(TextBeforeFirstDash(arg_result.title))
    /\ ret_company_name.value = Strip(TextBeforeFirstDash(arg_result.title))

\* the name is not taken from the title, and the URL can be parsed
NameDerivedFromDomain ==
    /\ ~( /\ In(" - ", arg_result.title)
          /\ ShortAndFreeOfWords(Strip(TextBeforeFirstDash(arg_result.title))) )
    /\ ~UrlParseRaises(arg_result.url)

\* the segment of s before its first "." (all of s without one)
TextBeforeFirstDot(s) ==
    LET i == Find(".", s, 1)
    IN  IF i = 0 THEN s ELSE Upto(s, i - 1)

\* the host without a leading "www.", then "careers.", then "jobs."
HostWithoutLeadingPrefixes(url) ==
    WithoutLeading(WithoutLeading(WithoutLeading(Lower(Netloc(url)),
        "www."), "careers."), "jobs.")

\* C16: when the company name is derived from the domain, only a leading
\* "www.", "careers." or "jobs." prefix of the host is removed, then the
\* segment before the first remaining "." is taken, hyphens become spaces and
\* the result is title-cased; the three strings are not removed elsewhere in
\* the host.
C16_OnlyLeadingPrefixesRemoved ==
    (ret_company_name.called /\ NameDerivedFromDomain)
        => ret_company_name.value
            = Title(Replace(TextBeforeFirstDot(HostWithoutLeadingPrefixes(arg_result.url)),
                            "-", " "))

----------------------------------------------------------------------------
(* Vocabulary of the statements about the relevance score.  ret_score.steps
   holds the running score (in tenths) before the first part and after each
   of the five parts: URL tier, industry, company size, domain authority,
   position. *)

ScoredUrl == Lower(arg_result.url)

UrlTierPart == ret_score.steps[2] - ret_score.steps[1]
IndustryPart == ret_score.steps[3] - ret_score.steps[2]
AuthorityPart == ret_score.steps[5] - ret_score.steps[4]
PositionPart == ret_score.steps[6] - ret_score.steps[5]

MatchesCareersTier == In("careers.", ScoredUrl) \/ In("/careers", ScoredUrl)
MatchesJobsTier == In("jobs.", ScoredUrl) \/ In("/jobs", ScoredUrl)
MatchesHiringTier ==
    In("hiring", ScoredUrl) \/ In("employment", ScoredUrl) \/ In("talent", ScoredUrl)

\* C17: the URL part of the score is exactly one of four mutually exclusive
\* tiers chosen by first match (3.0 for "careers." or "/careers", else 2.5 for
\* "jobs." or "/jobs", else 2.0 for hiring, employment or talent, else 0),
\* plus 0.5 when the URL contains ".com" and 0.3 when it contains "www."; a
\* URL that matches several tiers receives only the highest one.
C17_UrlPartIsHighestTierPlusAuthority ==
    ret_score.called =>
        /\ UrlTierPart \in {30, 25, 20, 0}
        /\ UrlTierPart = 30 <=> MatchesCareersTier
        /\ UrlTierPart = 25 <=> (~MatchesCareersTier /\ MatchesJobsTier)
        /\ UrlTierPart = 20 <=>
                (~MatchesCareersTier /\ ~MatchesJobsTier /\ MatchesHiringTier)
        /\ AuthorityPart = (IF In(".com", ScoredUrl) THEN 5 ELSE 0)
                            + (IF In("www.", ScoredUrl) THEN 3 ELSE 0)
        /\ ret_score.value = ret_score.steps[6]

\* a URL that matches the first and the second tier, scored 3.0 for it
C17_Witness ==
    /\ ret_score.called
    /\ MatchesCareersTier
    /\ MatchesJobsTier
    /\ UrlTierPart = 30
    /\ AuthorityPart = 5

\* the words of s, split on blanks, dropping empty ones
RECURSIVE NonEmpty(_)
NonEmpty(parts) ==
    IF parts = << >> THEN << >>
    ELSE IF Head(parts) = "" THEN NonEmpty(Tail(parts))
    ELSE << Head(parts) >> \o NonEmpty(Tail(parts))

RECURSIVE Flatten(_)
Flatten(seqs) == IF seqs = << >> THEN << >> ELSE Head(seqs) \o Flatten(Tail(seqs))

\* the whitespace-delimited tokens of the industry label split on "&"
IndustryTokens(crit) ==
    LET pieces == Split(Lower(Get(crit, "industry", "")), "&")
    IN  Flatten([ k \in 1..Len(pieces) |-> NonEmpty(Split(pieces[k], " ")) ])

\* C18: the 2.0 industry bonus is added if and only if the lower-cased title
\* contains at least one whitespace-delimited token of the industry label
\* split on "&"; an empty or missing industry label has no tokens and earns
\* nothing.
C18_IndustryBonusIffTokenInTitle ==
    ret_score.called =>
        LET tokens == IndustryTokens(criteria)
            matched == \E k \in 1..Len(tokens) : In(tokens[k], Lower(arg_result.title))
        IN  IndustryPart = (IF matched THEN 20 ELSE 0)

----------------------------------------------------------------------------
(* The position bonus of the hits of one discovery (Spec) *)

\* the organic_results of the answer of the search service
OrganicOfResponse ==
    IF /\ serp_response.kind = "http"
       /\ serp_response.status_code = 200
       /\ serp_response.body.kind = "object"
       /\ "organic_results" \in DOMAIN serp_response.body.data
    THEN serp_response.body.data.organic_results
    ELSE << >>

\* the score of a hit after its first four parts, before the position bonus,
\* each computed once
ScoreBeforePositionOf ==
    Tabulated([ h \in SearchHits, c \in DiscoverCriteria |-> ScoreSteps(h, c)[5] ])

\* the page was built from the raw result
PageOfHit(page, hit) ==
    /\ page.career_url = hit.url
    /\ page.title = hit.title
    /\ page.description = hit.snippet

\* C19: the position bonus of a hit is max(0, 10 - position) * 0.1 for its
\* 1-based rank in the answer of the search service: never negative, 0 from
\* position 10 on, and 0 for a hit whose position is missing from the answer,
\* for the hits that make_single_serp_call produced.
C19_PositionBonusFromRank ==
    Discovered =>
        \A k \in 1..Min(Len(raw_results), Len(OrganicOfResponse)) :
            \A j \in 1..Len(career_pages) :
                PageOfHit(career_pages[j], raw_results[k]) =>
                    career_pages[j].relevance_score
                        - ScoreBeforePositionOf[ReadFields(raw_results[k]), criteria]
                      = (IF "position" \in DOMAIN OrganicOfResponse[k]
                         THEN Max(0, 10 - OrganicOfResponse[k].position)
                         ELSE 0)

----------------------------------------------------------------------------
(* Admission does not depend on the score (SpecRerun) *)

\* the same hits in the same order, whatever their positions
SameHitsButPositions(raw1, raw2) ==
    /\ Len(raw1) = Len(raw2)
    /\ \A k \in 1..Len(raw1) :
          /\ raw1[k].title = raw2[k].title
          /\ raw1[k].url = raw2[k].url
          /\ raw1[k].snippet = raw2[k].snippet

\* the same criteria but for industry and company_size
SameButIndustryAndSize(crit1, crit2) ==
    LET others(c) == DOMAIN c \ { "industry", "company_size" }
    IN  /\ others(crit1) = others(crit2)
        /\ \A key \in others(crit1) : crit1[key] = crit2[key]

\* C20: the relevance score is used for ordering only, never for admission:
\* for a fixed hit sequence and fixed exclude_keywords, two classifier runs
\* that differ only in industry, company_size or the hits' positions admit
\* exactly the same set of hits.
C20_AdmissionIgnoresScoreInputs ==
    [][ ( /\ Returned
          /\ runs' = runs + 1
          /\ SameHitsButPositions(raw_results, raw_results')
          /\ SameButIndustryAndSize(criteria, criteria') )
        => AdmittedIdx(career_pages', raw_results')
             = AdmittedIdx(career_pages, raw_results) ]_vars

\* a second run on hits at other ranks with other select-box choices, which
\* admitted two hits and ranked the later one first
C20_Witness ==
    /\ runs = 2
    /\ criteria \notin CriteriaSet
    /\ \E k \in 1..Len(raw_results) : raw_results[k] \notin Hits
    /\ Len(career_pages) = 2
    /\ IsSourceOf(raw_results[2], career_pages[1])
    /\ ~IsSourceOf(raw_results[1], career_pages[1])

----------------------------------------------------------------------------
(* A reply that selects nothing (SpecLlm) *)

\* the service was asked, and its reply text parses to a JSON object whose
\* selected_companies is absent, empty, or holds only numbers that name no
\* candidate of the list
ReplySelectsNothingUsable ==
    /\ llm_requests # << >>
    /\ llm_reply.kind = "text"
    /\ AfterFenceStrip(llm_reply).kind = "object"
    /\ \/ "selected_companies" \notin DOMAIN llm_reply.body.data
       \/ \A k \in 1..Len(llm_reply.body.data.selected_companies) :
             LET idx == llm_reply.body.data.selected_companies[k]
             IN  idx < 1 \/ idx > Len(career_pages)

\* C21: when the reply is valid JSON but selects nothing usable
\* (selected_companies absent, empty, or every number out of range), the call
\* does not return an empty list: it returns the candidates it was given, in
\* their order, cut to num_results.
C21_NothingSelectedGivesTopCandidates ==
    (LlmReturned /\ ReplySelectsNothingUsable)
        => /\ ~llm_raised
           /\ final_pages # << >>
           /\ Len(final_pages) = Min(Len(career_pages), RequestedCount)
           /\ \A k \in 1..Len(final_pages) : final_pages[k] = career_pages[k]

\* a reply whose numbers are all out of range, answered with the first
\* num_results of more candidates than that
C21_Witness ==
    /\ LlmReturned
    /\ ReplySelectsNothingUsable
    /\ "selected_companies" \in DOMAIN llm_reply.body.data
    /\ llm_reply.body.data.selected_companies # << >>
    /\ Len(career_pages) > RequestedCount
    /\ Len(final_pages) = RequestedCount

----------------------------------------------------------------------------
(* The list a discovery displays (Spec) *)

\* C22: whatever the search service and the language-model service return,
\* the list a discovery displays has at most num_results candidates, and
\* every element of it is a candidate the classifier produced in that same
\* discovery: the language-model stage selects and reorders candidates, it
\* never creates or alters one.
C22_DisplayedAreClassifiedAndCapped ==
    Discovered =>
        /\ Len(final_pages) <= criteria.num_results
        /\ \A k \in 1..Len(final_pages) :
              \E j \in 1..Len(career_pages) : final_pages[k] = career_pages[j]

\* the classifier produced more candidates than asked for, the language
\* model was asked and put another candidate first, and the displayed list
\* is full
C22_Witness ==
    /\ Discovered
    /\ Len(career_pages) > criteria.num_results
    /\ llm_requests # << >>
    /\ Len(final_pages) = criteria.num_results
    /\ final_pages[1] # career_pages[1]
====
